---- MODULE Spec2Model ----
(***************************************************************************)
(* Model of crypto_trend_agent.py: the article store (SQLite table         *)
(* "articles"), the extractor (ArticleFetcher.fetch_article), the analyzer *)
(* (ClaudeClient.summarize_article), the ingestion loop                    *)
(* (CryptoTrendAgent.run) and the report (CryptoTrendAgent.show).          *)
(*                                                                         *)
(* Representation choices:                                                 *)
(*  - Python values are records tagged by k: None, num, str, dict.         *)
(*  - A score is an integer number of tenths (0.8 is 8, 1.5 is 15).        *)
(*  - A text body is represented by its length in characters.              *)
(*  - A model response is a sequence of tokens: free text, "{", "}", a     *)
(*    JSON literal, or the member list of a JSON object.                   *)
(***************************************************************************)
EXTENDS Integers, Sequences, FiniteSets, TLC

\* ------------------------------------------------------------------------
\* Bounds of the model
\* ------------------------------------------------------------------------
MaxRespLen == 5        \* tokens in a raw model response
MaxParas == 3          \* <p> elements in a fetched page
MaxCands == 3          \* candidates returned by one discovery call
MaxRows == 3           \* rows of a seeded store
MaxLimit == 3          \* largest --limit given to show
MaxTime == 3           \* distinct retrieval dates of a seeded store

\* ------------------------------------------------------------------------
\* Program constants
\* ------------------------------------------------------------------------
MinParagraphLen == 50      \* len(p.text.strip()) > 50
MaxContentLen == 10000     \* article_content[:10000]
MinScore == 0              \* "confidence score from 0.0 to 1.0", in tenths
MaxScore == 10
DefaultLimit == 5          \* --limit of show when the option is not given

\* ------------------------------------------------------------------------
\* Python values
\* ------------------------------------------------------------------------
PyNone == [k |-> "None"]
Num(n) == [k |-> "num", v |-> n]
Str(s) == [k |-> "str", s |-> s]
Dict(keys, summary, sentiment, score) ==
    [k |-> "dict", keys |-> keys, summary |-> summary,
     sentiment |-> sentiment, score |-> score]

AllKeys == {"summary", "sentiment", "score"}
EmptyDict == Dict({}, PyNone, PyNone, PyNone)
Labels == {"bullish", "bearish", "neutral"}

\* Payloads a model may answer with (the members between the braces).
GoodPayload == Dict(AllKeys, Str("x"), Str("bullish"), Num(8))
VeryBullishPayload == Dict(AllKeys, Str("x"), Str("very bullish"), Num(8))
HighScorePayload == Dict(AllKeys, Str("x"), Str("neutral"), Num(15))
TextScorePayload == Dict(AllKeys, Str("x"), Str("bearish"), Str("high"))
Payloads == {GoodPayload, VeryBullishPayload, HighScorePayload, TextScorePayload}

\* ------------------------------------------------------------------------
\* Raw model responses
\* ------------------------------------------------------------------------
TEXT == [t |-> "text"]
LBRACE == [t |-> "{"]
RBRACE == [t |-> "}"]
Literal(v) == [t |-> "literal", v |-> v]
Members(d) == [t |-> "members", v |-> d]

Tokens == {TEXT, LBRACE, RBRACE, Literal(Num(42)), Literal(PyNone)}
            \cup {Members(d) : d \in Payloads}

SeqsUpTo(S, n) == UNION {[1..m -> S] : m \in 0..n}
Responses == SeqsUpTo(Tokens, MaxRespLen)

\* json.loads: the decoded value, or a JSONDecodeError (ok = FALSE).
json_loads(text) ==
    IF text = <<LBRACE, RBRACE>> THEN [ok |-> TRUE, value |-> EmptyDict]
    ELSE IF Len(text) = 3 /\ text[1] = LBRACE /\ text[3] = RBRACE
            /\ text[2].t = "members"
         THEN [ok |-> TRUE, value |-> text[2].v]
    ELSE IF Len(text) = 1 /\ text[1].t = "literal"
         THEN [ok |-> TRUE, value |-> text[1].v]
    ELSE [ok |-> FALSE, value |-> PyNone]

FirstIndex(text, tok) ==
    IF \E i \in 1..Len(text) : text[i] = tok
    THEN CHOOSE i \in 1..Len(text) :
             text[i] = tok /\ \A j \in 1..(i - 1) : text[j] # tok
    ELSE 0

LastIndex(text, tok) ==
    IF \E i \in 1..Len(text) : text[i] = tok
    THEN CHOOSE i \in 1..Len(text) :
             text[i] = tok /\ \A j \in (i + 1)..Len(text) : text[j] # tok
    ELSE 0

\* re.search(r'({.*})', text, re.DOTALL): group(1), or <<>> for no match.
\* The pattern is greedy: leftmost "{" up to the last "}" of the text.
re_search(text) ==
    LET i == FirstIndex(text, LBRACE)
        j == LastIndex(text, RBRACE)
    IN IF i > 0 /\ j > i THEN SubSeq(text, i, j) ELSE <<>>

Returned(result, error) == [result |-> result, error |-> error, raised |-> FALSE]
ApiError == Str("Error calling Claude API")
ParseError == Str("Failed to parse Claude's response as JSON")

\* A call of the analyzer: the transport outcome and the response text.
AnalyzerCalls ==
    {[transport |-> "error", text |-> <<>>]}
      \cup {[transport |-> "ok", text |-> r] : r \in Responses}

\* Variant: the decode of the matched span is not covered by the handler.
summarize_article_span_unguarded(call) ==
    IF call.transport # "ok" THEN Returned(PyNone, ApiError)
    ELSE LET json_match == re_search(call.text)
         IN IF json_match # <<>>
            THEN LET d == json_loads(json_match)
                 IN IF d.ok THEN Returned(d.value, PyNone)
                    ELSE [result |-> PyNone, error |-> PyNone, raised |-> TRUE]
            ELSE LET d == json_loads(call.text)
                 IN IF d.ok THEN Returned(d.value, PyNone)
                            ELSE Returned(PyNone, ParseError)

summarize_article(call) ==
    IF call.transport # "ok" THEN Returned(PyNone, ApiError)
    ELSE LET json_match == re_search(call.text)
         IN IF json_match # <<>>
            THEN LET d == json_loads(json_match)
                 IN IF d.ok THEN Returned(d.value, PyNone)
                            ELSE Returned(PyNone, ApiError)
            ELSE LET d == json_loads(call.text)
                 IN IF d.ok THEN Returned(d.value, PyNone)
                            ELSE Returned(PyNone, ParseError)

\* ------------------------------------------------------------------------
\* Fetched pages
\* ------------------------------------------------------------------------
ParaLens == {0, 50, 51, 6000}      \* len(p.text.strip()) of a paragraph
NoTitle == "No title found"
Pages ==
    {[status |-> "error", has_title |-> FALSE, title |-> "", paras |-> <<>>]}
      \cup {[status |-> "ok", has_title |-> h, title |-> IF h THEN "Title" ELSE "",
             paras |-> ps] : h \in BOOLEAN, ps \in SeqsUpTo(ParaLens, MaxParas)}

RECURSIVE Concat(_)
\* Length of article_content after the loop over the paragraphs.
Concat(paras) ==
    IF paras = <<>> THEN 0
    ELSE LET p == paras[Len(paras)]
             rest == Concat(SubSeq(paras, 1, Len(paras) - 1))
         IN IF p > MinParagraphLen THEN rest + p + 2 ELSE rest

Truncate(n) == IF n > MaxContentLen THEN MaxContentLen ELSE n

Article(title, content) == [k |-> "dict", title |-> title, content |-> content]
FetchError == Str("Error fetching article")
ExtractError == Str("Failed to extract content")

\* Variant: the test for an empty article_content is missing.
fetch_article_no_empty_test(page) ==
    IF page.status # "ok" THEN [data |-> PyNone, error |-> FetchError]
    ELSE LET title == IF page.has_title THEN page.title ELSE NoTitle
             article_content == Concat(page.paras)
         IN [data |-> Article(title, Truncate(article_content)),
             error |-> PyNone]

fetch_article(page) ==
    IF page.status # "ok" THEN [data |-> PyNone, error |-> FetchError]
    ELSE LET title == IF page.has_title THEN page.title ELSE NoTitle
             article_content == Concat(page.paras)
         IN IF article_content = 0
            THEN [data |-> PyNone, error |-> ExtractError]
            ELSE [data |-> Article(title, Truncate(article_content)),
                  error |-> PyNone]

\* ------------------------------------------------------------------------
\* Coins, urls and discovery
\* ------------------------------------------------------------------------
\* A coin name is a sequence of characters; str.lower() maps each of them.
LowerChar(c) ==
    CASE c = "B" -> "b" [] c = "T" -> "t" [] c = "C" -> "c"
      [] c = "E" -> "e" [] c = "H" -> "h" [] OTHER -> c
Lower(name) == [i \in 1..Len(name) |-> LowerChar(name[i])]

BTC == <<"B", "T", "C">>
Btc == <<"B", "t", "c">>
btc == <<"b", "t", "c">>
ETH == <<"E", "T", "H">>
eth == <<"e", "t", "h">>
Coins == {BTC, Btc, eth}
QueryCoins == {BTC, Btc, btc, ETH, eth}

URL(n) == <<"u", n>>
URLs == {URL(1), URL(2)}
Runs == {"A", "B"}
Limits == (0 - 1)..MaxLimit

NoDuplicates(seq) == \A i, j \in 1..Len(seq) : seq[i] = seq[j] => i = j

\* BraveSearchClient.search_crypto_news: the list of result urls, or the
\* exception raised on a status other than 200.
search_crypto_news(lists) ==
    {[status |-> "error", results |-> <<>>]}
      \cup {[status |-> "ok", results |-> rs] : rs \in lists}

CandidateLists == SeqsUpTo(URLs, MaxCands)
\* Lists of two runs that race: no url twice in one list.
RaceLists == {rs \in SeqsUpTo(URLs, Cardinality(URLs)) : NoDuplicates(rs)}

\* Pages and analyzer calls met by the ingestion loop.
LoopPages ==
    {p \in Pages : \/ p.status # "ok"
                   \/ p.has_title /\ p.paras \in {<<0>>, <<51>>}
                   \/ ~p.has_title /\ p.paras = <<6000, 6000>>}
RacePages == {p \in LoopPages : p.status = "ok" => p.paras = <<51>>}

\* ------------------------------------------------------------------------
\* The articles table
\* ------------------------------------------------------------------------
Row(coin, url, title, retrieval_date, content, summary, sentiment, score) ==
    [coin |-> coin, url |-> url, title |-> title,
     retrieval_date |-> retrieval_date, content |-> content,
     summary |-> summary, sentiment |-> sentiment, score |-> score]

StoredUrls(table) == {table[i].url : i \in 1..Len(table)}

\* SELECT id FROM articles WHERE url = ?
exists(table, url) == url \in StoredUrls(table)

\* Variant: the url column without its UNIQUE constraint.
insert_without_unique(table, row) ==
    [table |-> Append(table, row), integrity_error |-> FALSE]

\* Variant: INSERT OR REPLACE, which drops the stored row of the url.
insert_or_replace(table, row) ==
    [table |-> Append(SelectSeq(table, LAMBDA x : x.url # row.url), row),
     integrity_error |-> FALSE]

\* INSERT INTO articles ...: the UNIQUE constraint on url raises
\* sqlite3.IntegrityError and leaves the table as it was.
insert(table, row) ==
    IF exists(table, row.url)
    THEN [table |-> table, integrity_error |-> TRUE]
    ELSE [table |-> Append(table, row), integrity_error |-> FALSE]

\* datetime.now().isoformat(): a clock reading later than every stored one.
now(table) == Len(table) + 1

\* ------------------------------------------------------------------------
\* State
\* ------------------------------------------------------------------------
\* rows of the articles table, in insertion order
VARIABLE store
\* position of each run in CryptoTrendAgent.run
VARIABLE pc
\* argument coin of each run
VARIABLE coin
\* list returned by the discovery call of each run
VARIABLE search_results
\* index of the candidate the loop of each run is at
VARIABLE idx
\* article_data of the current candidate
VARIABLE article_data
\* analysis of the current candidate
VARIABLE analysis
\* last message a run has written
VARIABLE echo
\* whether a run has written the duplicate warning
VARIABLE warned
\* rows fetched by the last show
VARIABLE shown
\* arguments of the last show and how it ended
VARIABLE report
\* a call of summarize_article
VARIABLE a_call
\* what that call returned
VARIABLE a_ret
\* a page given to fetch_article
VARIABLE f_page
\* what fetch_article returned for it
VARIABLE f_ret

runvars == <<pc, coin, search_results, idx, article_data, analysis, echo, warned>>
showvars == <<shown, report>>
fnvars == <<a_call, a_ret, f_page, f_ret>>
vars == <<store, runvars, showvars, fnvars>>

Pending == [k |-> "pending"]

\* The agents as constructed, before any command has run.
RunsIdle ==
    /\ pc = [r \in Runs |-> "idle"]
    /\ coin = [r \in Runs |-> <<>>]
    /\ search_results = [r \in Runs |-> <<>>]
    /\ idx = [r \in Runs |-> 0]
    /\ article_data = [r \in Runs |-> PyNone]
    /\ analysis = [r \in Runs |-> PyNone]
    /\ echo = [r \in Runs |-> "none"]
    /\ warned = [r \in Runs |-> FALSE]

ShowIdle ==
    /\ shown = <<>>
    /\ report = [coin |-> <<>>, limit |-> 0, end |-> "none", counts |-> PyNone]

FnIdle ==
    /\ a_call = Pending /\ a_ret = Pending
    /\ f_page = Pending /\ f_ret = Pending

\* init_db: CREATE TABLE IF NOT EXISTS on a fresh database.
init_db == store = <<>>

Init == init_db /\ RunsIdle /\ ShowIdle /\ FnIdle

\* ---- CryptoTrendAgent.run, one action per step of the loop
Set(f, r, v) == [f EXCEPT ![r] = v]

\* Variant: the test for an empty result list is missing.
run_search_no_empty_test(r, lists) ==
    /\ pc[r] = "idle"
    /\ \E c \in Coins, o \in search_crypto_news(lists) :
          /\ coin' = Set(coin, r, c)
          /\ IF o.status # "ok"
             THEN /\ pc' = Set(pc, r, "aborted")
                  /\ echo' = Set(echo, r, "exception")
                  /\ UNCHANGED <<search_results, idx>>
             ELSE IF o.results = <<>>
             THEN /\ pc' = Set(pc, r, "done")
                  /\ echo' = Set(echo, r, "found")
                  /\ UNCHANGED <<search_results, idx>>
             ELSE /\ pc' = Set(pc, r, "check")
                  /\ echo' = Set(echo, r, "found")
                  /\ search_results' = Set(search_results, r, o.results)
                  /\ idx' = Set(idx, r, 1)
    /\ UNCHANGED <<store, article_data, analysis, warned, showvars, fnvars>>

\* Lines 192-201: the discovery call and the test for an empty list.
run_search(r, lists) ==
    /\ pc[r] = "idle"
    /\ \E c \in Coins, o \in search_crypto_news(lists) :
          /\ coin' = Set(coin, r, c)
          /\ IF o.status # "ok"
             THEN /\ pc' = Set(pc, r, "aborted")
                  /\ echo' = Set(echo, r, "exception")
                  /\ UNCHANGED <<search_results, idx>>
             ELSE IF o.results = <<>>
             THEN /\ pc' = Set(pc, r, "done")
                  /\ echo' = Set(echo, r, "no_results")
                  /\ UNCHANGED <<search_results, idx>>
             ELSE /\ pc' = Set(pc, r, "check")
                  /\ echo' = Set(echo, r, "found")
                  /\ search_results' = Set(search_results, r, o.results)
                  /\ idx' = Set(idx, r, 1)
    /\ UNCHANGED <<store, article_data, analysis, warned, showvars, fnvars>>

\* Variant: the result of the existence check is not acted on.
run_check_no_skip(r) ==
    /\ pc[r] = "check"
    /\ echo' = Set(echo, r, "processing")
    /\ pc' = Set(pc, r, "fetch")
    /\ UNCHANGED <<store, coin, search_results, idx, article_data, analysis,
                   warned, showvars, fnvars>>

\* Variant: SELECT id FROM articles WHERE url = ? AND coin = ?
run_check_same_coin(r) ==
    /\ pc[r] = "check"
    /\ IF \E i \in 1..Len(store) :
             /\ store[i].url = search_results[r][idx[r]]
             /\ store[i].coin = Lower(coin[r])
       THEN /\ echo' = Set(echo, r, "skip")
            /\ pc' = Set(pc, r, "loop")
       ELSE /\ echo' = Set(echo, r, "processing")
            /\ pc' = Set(pc, r, "fetch")
    /\ UNCHANGED <<store, coin, search_results, idx, article_data, analysis,
                   warned, showvars, fnvars>>

\* Lines 205-219: the existence check of the candidate's url.
run_check(r) ==
    /\ pc[r] = "check"
    /\ IF exists(store, search_results[r][idx[r]])
       THEN /\ echo' = Set(echo, r, "skip")
            /\ pc' = Set(pc, r, "loop")
       ELSE /\ echo' = Set(echo, r, "processing")
            /\ pc' = Set(pc, r, "fetch")
    /\ UNCHANGED <<store, coin, search_results, idx, article_data, analysis,
                   warned, showvars, fnvars>>

\* Variant: a failed extraction raises instead of being reported.
run_fetch_raises(r, pages) ==
    /\ pc[r] = "fetch"
    /\ \E p \in pages :
          LET o == fetch_article(p)
          IN IF o.error # PyNone
             THEN /\ echo' = Set(echo, r, "exception")
                  /\ pc' = Set(pc, r, "crashed")
                  /\ UNCHANGED article_data
             ELSE /\ echo' = Set(echo, r, "analyzing")
                  /\ pc' = Set(pc, r, "analyze")
                  /\ article_data' = Set(article_data, r, o.data)
    /\ UNCHANGED <<store, coin, search_results, idx, analysis, warned, showvars, fnvars>>

\* Lines 221-228: extraction.
run_fetch(r, pages) ==
    /\ pc[r] = "fetch"
    /\ \E p \in pages :
          LET o == fetch_article(p)
          IN IF o.error # PyNone
             THEN /\ echo' = Set(echo, r, "fetch_error")
                  /\ pc' = Set(pc, r, "loop")
                  /\ UNCHANGED article_data
             ELSE /\ echo' = Set(echo, r, "analyzing")
                  /\ pc' = Set(pc, r, "analyze")
                  /\ article_data' = Set(article_data, r, o.data)
    /\ UNCHANGED <<store, coin, search_results, idx, analysis, warned, showvars, fnvars>>

\* What the analyzer can return over all calls.
AnalyzerOutcomes == {summarize_article(c) : c \in AnalyzerCalls}

\* Lines 229-232: analysis.
run_analyze(r) ==
    /\ pc[r] = "analyze"
    /\ \E o \in AnalyzerOutcomes :
          IF o.error # PyNone
          THEN /\ echo' = Set(echo, r, "analysis_error")
               /\ pc' = Set(pc, r, "loop")
               /\ UNCHANGED analysis
          ELSE /\ pc' = Set(pc, r, "insert")
               /\ analysis' = Set(analysis, r, o.result)
               /\ UNCHANGED echo
    /\ UNCHANGED <<store, coin, search_results, idx, article_data,
                   warned, showvars, fnvars>>

\* Variant: the coin is stored as it was typed.
run_insert_keeps_case(r) ==
    /\ pc[r] = "insert"
    /\ IF ~(analysis[r].k = "dict" /\ AllKeys \subseteq analysis[r].keys)
       THEN /\ pc' = Set(pc, r, "crashed")
            /\ echo' = Set(echo, r, "exception")
            /\ UNCHANGED <<store, warned>>
       ELSE LET row == Row(coin[r], search_results[r][idx[r]],
                           article_data[r].title, now(store),
                           article_data[r].content, analysis[r].summary,
                           analysis[r].sentiment, analysis[r].score)
                res == insert(store, row)
            IN /\ store' = res.table
               /\ IF res.integrity_error
                  THEN /\ echo' = Set(echo, r, "already_exists")
                       /\ warned' = Set(warned, r, TRUE)
                       /\ pc' = Set(pc, r, "sleep")
                  ELSE IF analysis[r].score.k # "num"
                  THEN /\ echo' = Set(echo, r, "exception")
                       /\ pc' = Set(pc, r, "crashed")
                       /\ UNCHANGED warned
                  ELSE /\ echo' = Set(echo, r, "stored")
                       /\ pc' = Set(pc, r, "sleep")
                       /\ UNCHANGED warned
    /\ UNCHANGED <<coin, search_results, idx, article_data, analysis,
                   showvars, fnvars>>

\* Lines 235-256: the insert, its commit and the report of the outcome.
\* Subscripting analysis raises TypeError or KeyError when it is not a dict
\* holding the three keys; formatting the score with :.2f raises when it is
\* not a number. Only sqlite3.IntegrityError is handled; any other exception
\* ends the process.
run_insert(r) ==
    /\ pc[r] = "insert"
    /\ IF ~(analysis[r].k = "dict" /\ AllKeys \subseteq analysis[r].keys)
       THEN /\ pc' = Set(pc, r, "crashed")
            /\ echo' = Set(echo, r, "exception")
            /\ UNCHANGED <<store, warned>>
       ELSE LET row == Row(Lower(coin[r]), search_results[r][idx[r]],
                           article_data[r].title, now(store),
                           article_data[r].content, analysis[r].summary,
                           analysis[r].sentiment, analysis[r].score)
                res == insert(store, row)
            IN /\ store' = res.table
               /\ IF res.integrity_error
                  THEN /\ echo' = Set(echo, r, "already_exists")
                       /\ warned' = Set(warned, r, TRUE)
                       /\ pc' = Set(pc, r, "sleep")
                  ELSE IF analysis[r].score.k # "num"
                  THEN /\ echo' = Set(echo, r, "exception")
                       /\ pc' = Set(pc, r, "crashed")
                       /\ UNCHANGED warned
                  ELSE /\ echo' = Set(echo, r, "stored")
                       /\ pc' = Set(pc, r, "sleep")
                       /\ UNCHANGED warned
    /\ UNCHANGED <<coin, search_results, idx, article_data, analysis,
                   showvars, fnvars>>

\* Line 259: time.sleep(1).
run_sleep(r) ==
    /\ pc[r] = "sleep"
    /\ pc' = Set(pc, r, "loop")
    /\ UNCHANGED <<store, coin, search_results, idx, article_data, analysis,
                   echo, warned, showvars, fnvars>>

\* Variant: a candidate that failed is taken again.
run_loop_retry(r) ==
    /\ pc[r] = "loop"
    /\ IF echo[r] \in {"fetch_error", "analysis_error"}
       THEN /\ pc' = Set(pc, r, "check")
            /\ UNCHANGED idx
       ELSE /\ idx' = Set(idx, r, idx[r] + 1)
            /\ pc' = Set(pc, r, IF idx[r] < Len(search_results[r])
                                  THEN "check" ELSE "done")
    /\ article_data' = Set(article_data, r, PyNone)
    /\ analysis' = Set(analysis, r, PyNone)
    /\ echo' = Set(echo, r, "none")
    /\ UNCHANGED <<store, coin, search_results, warned, showvars, fnvars>>

\* Line 204: the for statement takes the next candidate, or ends the run.
run_loop(r) ==
    /\ pc[r] = "loop"
    /\ idx' = Set(idx, r, idx[r] + 1)
    /\ pc' = Set(pc, r, IF idx[r] < Len(search_results[r]) THEN "check" ELSE "done")
    /\ article_data' = Set(article_data, r, PyNone)
    /\ analysis' = Set(analysis, r, PyNone)
    /\ echo' = Set(echo, r, "none")
    /\ UNCHANGED <<store, coin, search_results, warned, showvars, fnvars>>

\* Lines 321-324: the command is given again, in a new process.
cli_run(r) ==
    /\ pc[r] \in {"done", "aborted", "crashed"}
    /\ pc' = Set(pc, r, "idle")
    /\ coin' = Set(coin, r, <<>>)
    /\ search_results' = Set(search_results, r, <<>>)
    /\ idx' = Set(idx, r, 0)
    /\ article_data' = Set(article_data, r, PyNone)
    /\ analysis' = Set(analysis, r, PyNone)
    /\ echo' = Set(echo, r, "none")
    /\ warned' = Set(warned, r, FALSE)
    /\ UNCHANGED <<store, showvars, fnvars>>

run(r, lists, pages) ==
    \/ run_search(r, lists)
    \/ run_check(r)
    \/ run_fetch(r, pages)
    \/ run_analyze(r)
    \/ run_insert(r)
    \/ run_sleep(r)
    \/ run_loop(r)

\* ---- CryptoTrendAgent.show
ShownRow(row) ==
    [title |-> row.title, url |-> row.url, summary |-> row.summary,
     sentiment |-> row.sentiment, score |-> row.score,
     retrieval_date |-> row.retrieval_date]

\* WHERE coin = ?: positions of the rows of a coin.
where_coin(table, c) == {i \in 1..Len(table) : table[i].coin = c}

\* Variant: ORDER BY retrieval_date ASC.
order_by_retrieval_date_asc(table, S) ==
    {f \in [1..Cardinality(S) -> S] :
        /\ \A a, b \in 1..Cardinality(S) : f[a] = f[b] => a = b
        /\ \A a, b \in 1..Cardinality(S) :
              a < b => table[f[a]].retrieval_date <= table[f[b]].retrieval_date}

\* ORDER BY retrieval_date DESC: the orders of the positions S the engine
\* may produce; rows of equal date come in any order.
order_by_retrieval_date_desc(table, S) ==
    {f \in [1..Cardinality(S) -> S] :
        /\ \A a, b \in 1..Cardinality(S) : f[a] = f[b] => a = b
        /\ \A a, b \in 1..Cardinality(S) :
              a < b => table[f[a]].retrieval_date >= table[f[b]].retrieval_date}

\* LIMIT ?: a negative limit is no limit in SQLite.
limit_rows(n, limit) ==
    IF limit < 0 THEN n ELSE IF limit < n THEN limit ELSE n

\* Variant: the coin of the query is compared as it was typed.
show_keeps_case(c, limit) ==
    /\ \E f \in order_by_retrieval_date_desc(store, where_coin(store, c)) :
          LET n == limit_rows(Len(f), limit)
              results == [i \in 1..n |-> ShownRow(store[f[i]])]
          IN /\ shown' = results
             /\ report' =
                  [coin |-> c, limit |-> limit,
                   end |-> IF results = <<>> THEN "no_data"
                           ELSE IF \E i \in 1..n : results[i].score.k # "num"
                                THEN "format_exception"
                                ELSE "closed_database_exception",
                   counts |-> PyNone]
    /\ UNCHANGED <<store, runvars, fnvars>>

\* Lines 263-310. Printing a row raises when its score is not a number;
\* after the rows, line 295 asks the closed connection for a cursor, which
\* raises sqlite3.ProgrammingError: sentiment_counts is never assigned.
show(c, limit) ==
    /\ \E f \in order_by_retrieval_date_desc(store, where_coin(store, Lower(c))) :
          LET n == limit_rows(Len(f), limit)
              results == [i \in 1..n |-> ShownRow(store[f[i]])]
          IN /\ shown' = results
             /\ report' =
                  [coin |-> c, limit |-> limit,
                   end |-> IF results = <<>> THEN "no_data"
                           ELSE IF \E i \in 1..n : results[i].score.k # "num"
                                THEN "format_exception"
                                ELSE "closed_database_exception",
                   counts |-> PyNone]
    /\ UNCHANGED <<store, runvars, fnvars>>

\* -------- runs given one after the other
Next == run("A", CandidateLists, LoopPages) \/ cli_run("A")
Spec == Init /\ [][Next]_vars

\* -------- two runs at the same time
NextRace == \E r \in Runs : run(r, RaceLists, RacePages)
SpecRace == Init /\ [][NextRace]_vars

\* -------- two runs at the same time and the report between commands
AtRest == \A r \in Runs : pc[r] \in {"idle", "done", "aborted", "crashed"}

\* Lines 326-332: the show command with its default limit, given while no
\* run is under way.
cli_show ==
    /\ AtRest
    /\ report.end = "none"
    /\ \E c \in QueryCoins : show(c, DefaultLimit)

\* The show process has ended; its output is no longer looked at.
cli_show_exit ==
    /\ report.end # "none"
    /\ shown' = <<>>
    /\ report' = [coin |-> <<>>, limit |-> 0, end |-> "none", counts |-> PyNone]
    /\ UNCHANGED <<store, runvars, fnvars>>

NextCli ==
    \/ report.end = "none" /\ NextRace
    \/ cli_show
    \/ cli_show_exit
SpecCli == Init /\ [][NextCli]_vars

\* -------- the report over a table filled by earlier runs
Times == 1..MaxTime
SeedFields == [coin : {btc, eth}, date : Times]
SeedSentiment(i) == IF i % 2 = 1 THEN "bullish" ELSE "bearish"
SeedStores ==
    {[i \in 1..Len(f) |->
         Row(f[i].coin, URL(i), "Title", f[i].date, MinParagraphLen + 3,
             Str("x"), Str(SeedSentiment(i)), Num(8))] :
       f \in SeqsUpTo(SeedFields, MaxRows)}

InitShow == store \in SeedStores /\ RunsIdle /\ ShowIdle /\ FnIdle
\* The report is asked for once.
NextShow ==
    /\ report.end = "none"
    /\ \E c \in QueryCoins, limit \in Limits : show(c, limit)
SpecShow == InitShow /\ [][NextShow]_vars

\* -------- specification of the analyzer alone
InitAnalyzer ==
    /\ init_db /\ RunsIdle /\ ShowIdle
    /\ a_call \in AnalyzerCalls
    /\ a_ret = Pending
    /\ f_page = Pending
    /\ f_ret = Pending

call_summarize_article ==
    /\ a_ret = Pending
    /\ a_ret' = summarize_article(a_call)
    /\ UNCHANGED <<store, runvars, showvars, a_call, f_page, f_ret>>

NextAnalyzer == call_summarize_article
SpecAnalyzer == InitAnalyzer /\ [][NextAnalyzer]_vars

\* -------- specification of the extractor alone
InitFetcher ==
    /\ init_db /\ RunsIdle /\ ShowIdle
    /\ f_page \in Pages
    /\ f_ret = Pending
    /\ a_call = Pending
    /\ a_ret = Pending

call_fetch_article ==
    /\ f_ret = Pending
    /\ f_ret' = fetch_article(f_page)
    /\ UNCHANGED <<store, runvars, showvars, f_page, a_call, a_ret>>

NextFetcher == call_fetch_article
SpecFetcher == InitFetcher /\ [][NextFetcher]_vars

\* ------------------------------------------------------------------------
\* Properties of the analyzer (SpecAnalyzer)
\* ------------------------------------------------------------------------
ValidSentiment(v) == v.k = "str" /\ v.s \in Labels
ValidScore(v) == v.k = "num" /\ MinScore <= v.v /\ v.v <= MaxScore
ValidAnalysis(d) ==
    /\ d.k = "dict"
    /\ AllKeys \subseteq d.keys
    /\ ValidSentiment(d.sentiment)
    /\ ValidScore(d.score)

AnalyzerReturned == a_call # Pending /\ a_ret # Pending

\* Spans of the text that are a well-formed JSON object.
IsObjectSpan(text, i, j) ==
    /\ 1 <= i /\ i <= j /\ j <= Len(text)
    /\ json_loads(SubSeq(text, i, j)).ok
    /\ json_loads(SubSeq(text, i, j)).value.k = "dict"
HasObjectSpan(text) ==
    \E i, j \in 1..Len(text) : IsObjectSpan(text, i, j)
FirstObjectSpan(text) ==
    LET i == CHOOSE a \in 1..Len(text) :
                 /\ \E b \in 1..Len(text) : IsObjectSpan(text, a, b)
                 /\ \A c \in 1..(a - 1), b \in 1..Len(text) :
                        ~IsObjectSpan(text, c, b)
        j == CHOOSE b \in 1..Len(text) : IsObjectSpan(text, i, b)
    IN SubSeq(text, i, j)

\* C5: a decoded payload whose sentiment is not one of the three labels, or
\* whose score is not a number in [0.0, 1.0], is answered with an analysis
\* error and no result.
C5_InvalidPayloadRejected ==
    (AnalyzerReturned /\ a_call.transport = "ok"
        /\ \E i, j \in 1..Len(a_call.text) :
              /\ IsObjectSpan(a_call.text, i, j)
              /\ a_ret.result = json_loads(SubSeq(a_call.text, i, j)).value
              /\ AllKeys \subseteq a_ret.result.keys
              /\ ~(ValidSentiment(a_ret.result.sentiment)
                     /\ ValidScore(a_ret.result.score)))
    => (a_ret.error # PyNone)

\* C6: when the response holds a well-formed object span, with any free
\* text (braces and further objects included) around it, the analyzer
\* returns the decoded first well-formed span and no error.
C6_FirstSpanDecoded ==
    (AnalyzerReturned /\ a_call.transport = "ok" /\ HasObjectSpan(a_call.text))
    => /\ a_ret.error = PyNone
       /\ a_ret.result = json_loads(FirstObjectSpan(a_call.text)).value

Candidate(r) == search_results[r][idx[r]]
UrlCount(table, url) == Cardinality({i \in 1..Len(table) : table[i].url = url})
Moves(r) == pc'[r] # pc[r]

UniqueUrls == \A i, j \in 1..Len(store) : store[i].url = store[j].url => i = j

\* An insert attempt of run r for a url that is stored.
DuplicateAttempt(r) ==
    /\ pc[r] = "insert"
    /\ analysis[r].k = "dict" /\ AllKeys \subseteq analysis[r].keys
    /\ exists(store, Candidate(r))

\* C1: the store never holds two records of one url; an insert attempt for
\* a stored url leaves the store as it is, is reported as a duplicate and
\* lets the run go on, and the url keeps exactly one record.
C1_UniqueUrl ==
    /\ [](UniqueUrls)
    /\ [][\A r \in Runs :
            (DuplicateAttempt(r) /\ Moves(r)) =>
               /\ store' = store
               /\ echo'[r] = "already_exists"
               /\ pc'[r] = "sleep"
               /\ UrlCount(store', Candidate(r)) = 1]_vars

\* A run has met the uniqueness constraint and goes on.
WitnessC1 ==
    \E r \in Runs :
       /\ pc[r] = "sleep"
       /\ echo[r] = "already_exists"
       /\ UrlCount(store, Candidate(r)) = 1

\* C2: every stored record has one of the three sentiment labels and a
\* numeric score between 0.0 and 1.0.
C2_StoredValid ==
    \A i \in 1..Len(store) :
       ValidSentiment(store[i].sentiment) /\ ValidScore(store[i].score)

\* C3: after a non-empty discovery no outcome of a candidate aborts the run:
\* the run never ends on an exception, and a finished run has gone through
\* all its candidates.
C3_NoCandidateAborts ==
    \A r \in Runs :
       /\ pc[r] # "crashed"
       /\ (pc[r] = "done" /\ search_results[r] # <<>>)
             => idx[r] = Len(search_results[r]) + 1

\* C4: the analyzer is invoked for exactly the candidates whose url was
\* absent at their existence check and whose extraction succeeded; a failed
\* extraction leads to neither analysis nor insert, and the loop goes on to
\* the candidate after it.
C4_ExtractionFailureIsolated ==
    [][\A r \in Runs :
         /\ (pc'[r] = "analyze" /\ Moves(r)) =>
               /\ pc[r] = "fetch"
               /\ article_data'[r] # PyNone
               /\ idx'[r] = idx[r]
         /\ (pc'[r] = "fetch" /\ Moves(r)) =>
               /\ pc[r] = "check"
               /\ ~exists(store, Candidate(r))
         /\ (pc[r] = "fetch" /\ Moves(r)) =>
               /\ pc'[r] \in {"analyze", "loop"}
               /\ (pc'[r] = "loop") <=> (echo'[r] = "fetch_error")
               /\ (pc'[r] = "loop") =>
                     /\ article_data'[r] = PyNone
                     /\ analysis'[r] = PyNone
                     /\ store' = store
         /\ (pc'[r] = "insert" /\ Moves(r)) => pc[r] = "analyze"
         /\ (pc[r] = "loop" /\ echo[r] = "fetch_error" /\ Moves(r)) =>
               /\ store' = store
               /\ idx'[r] = idx[r] + 1
               /\ IF idx[r] < Len(search_results[r])
                  THEN pc'[r] = "check" ELSE pc'[r] = "done"]_vars

\* The 2nd of 3 candidates failed extraction and the 3rd is being analyzed
\* next: the run is at the loop head with the 3rd still to come.
WitnessC4 ==
    /\ pc["A"] = "loop"
    /\ echo["A"] = "fetch_error"
    /\ idx["A"] = 2
    /\ Len(search_results["A"]) = 3
    /\ article_data["A"] = PyNone

\* C8: extraction and analysis of a candidate come only after its existence
\* check found the url absent; a check that finds the url stored emits the
\* skip notice and goes straight to the next candidate, with no extraction,
\* no analysis, no insert and no pacing delay.
C8_DedupBeforeWork ==
    [][\A r \in Runs :
         /\ (pc'[r] \in {"fetch", "analyze", "insert"} /\ Moves(r)) =>
               /\ pc[r] = (CASE pc'[r] = "fetch" -> "check"
                             [] pc'[r] = "analyze" -> "fetch"
                             [] pc'[r] = "insert" -> "analyze")
               /\ idx'[r] = idx[r]
               /\ pc[r] = "check" => ~exists(store, Candidate(r))
         /\ (pc[r] = "check" /\ exists(store, Candidate(r)) /\ Moves(r)) =>
               /\ pc'[r] = "loop"
               /\ echo'[r] = "skip"
               /\ store' = store
               /\ article_data'[r] = PyNone
               /\ analysis'[r] = PyNone
         /\ (pc[r] = "loop" /\ echo[r] = "skip" /\ Moves(r)) =>
               /\ pc'[r] \in {"check", "done"}
               /\ idx'[r] = idx[r] + 1
               /\ store' = store]_vars

\* A candidate has been skipped because its url is stored.
WitnessC8 ==
    /\ pc["A"] = "loop"
    /\ echo["A"] = "skip"
    /\ exists(store, Candidate("A"))

\* C9: no stored record has an empty content: an extraction without a
\* substantive paragraph gives no article, and the content of an article is
\* non-empty and within the maximum size.
C9_NoEmptyContent ==
    /\ \A i \in 1..Len(store) :
          store[i].content > 0 /\ store[i].content <= MaxContentLen
    /\ \A r \in Runs :
          article_data[r] # PyNone =>
             article_data[r].content > 0 /\ article_data[r].content <= MaxContentLen

\* A truncated body has been stored.
WitnessC9 ==
    \E i \in 1..Len(store) : store[i].content = MaxContentLen

\* ------------------------------------------------------------------------
\* Properties of the report (SpecShow)
\* ------------------------------------------------------------------------
ShowReturned == report.end # "none"
MatchingRows == where_coin(store, Lower(report.coin))
Min(a, b) == IF a < b THEN a ELSE b

\* The rows shown are rows of the coin, most recent first, and no row of
\* the coin left out is more recent than a row shown.
ShownMostRecent ==
    /\ \A k \in 1..Len(shown) :
          \E i \in MatchingRows : shown[k] = ShownRow(store[i])
    /\ \A a, b \in 1..Len(shown) : shown[a].url = shown[b].url => a = b
    /\ \A a, b \in 1..Len(shown) :
          a < b => shown[a].retrieval_date >= shown[b].retrieval_date
    /\ \A i \in MatchingRows :
          (\A k \in 1..Len(shown) : shown[k].url # store[i].url) =>
             \A k \in 1..Len(shown) :
                shown[k].retrieval_date >= store[i].retrieval_date

\* C10 as stated: for any coin and limit the report query reads the
\* min(limit, number of matching records) most recent records of the
\* lowercased coin, most recent first.
C10_QueryAnyLimit ==
    ShowReturned =>
       /\ ShownMostRecent
       /\ Len(shown) = Min(report.limit, Cardinality(MatchingRows))

\* C10 amended: that holds for a limit of 0 or more; for a negative limit
\* the query reads all the records of the coin, most recent first.
C10_QueryLimit ==
    ShowReturned =>
       /\ ShownMostRecent
       /\ report.limit >= 0 =>
             Len(shown) = Min(report.limit, Cardinality(MatchingRows))
       /\ report.limit < 0 => Len(shown) = Cardinality(MatchingRows)

\* The limit has cut the rows of a coin queried in another letter case, and
\* the rows shown have different dates.
WitnessC10 ==
    /\ ShowReturned
    /\ report.coin # Lower(report.coin)
    /\ Len(shown) = 2
    /\ Cardinality(MatchingRows) = 3
    /\ shown[1].retrieval_date > shown[2].retrieval_date

\* ------------------------------------------------------------------------
\* Properties of the aggregate (SpecShow)
\* ------------------------------------------------------------------------
\* SELECT sentiment, COUNT(*) ... WHERE coin = ? GROUP BY sentiment
SentimentCounts(table, c) ==
    LET S == where_coin(table, c)
        present == {table[i].sentiment : i \in S}
    IN [v \in present |-> Cardinality({i \in S : table[i].sentiment = v})]

\* C11: for a coin with at least one stored record the report completes and
\* yields the mapping from each sentiment label present to the number of
\* stored records of the coin with that label.
C11_AggregateYielded ==
    (ShowReturned /\ MatchingRows # {}) =>
       /\ report.end = "completed"
       /\ report.counts = SentimentCounts(store, Lower(report.coin))

\* ------------------------------------------------------------------------
\* Properties of two runs at the same time (SpecRace)
\* ------------------------------------------------------------------------
\* C12: when two runs race for a url, one insert succeeds and the store
\* holds one record of the url; the run that got the duplicate error has
\* written the warning, is not ended by an exception and, once finished, has
\* gone through all its candidates.
C12_RaceTolerated ==
    /\ UniqueUrls
    /\ \A r \in Runs :
          warned[r] =>
             /\ pc[r] # "crashed"
             /\ pc[r] = "done" => idx[r] = Len(search_results[r]) + 1

\* ------------------------------------------------------------------------
\* Properties of the loop (Spec)
\* ------------------------------------------------------------------------
Stages == {"check", "fetch", "analyze", "insert", "sleep", "loop"}
Rank(stage) ==
    CASE stage = "check" -> 1 [] stage = "fetch" -> 2 [] stage = "analyze" -> 3
      [] stage = "insert" -> 4 [] stage = "sleep" -> 5 [] stage = "loop" -> 6

\* C13: a discovery call that fails ends the run on the exception before
\* any candidate is looked at, the store unchanged; a discovery that
\* succeeds with an empty list ends the run normally with the "no results"
\* message, the store unchanged; candidates are only processed from a
\* non-empty list.
C13_DiscoveryOutcome ==
    [][\A r \in Runs :
         /\ (pc[r] = "idle" /\ Moves(r)) =>
               /\ store' = store
               /\ pc'[r] \in {"aborted", "done", "check"}
               /\ pc'[r] = "aborted" =>
                     /\ echo'[r] = "exception"
                     /\ search_results'[r] = <<>> /\ idx'[r] = 0
               /\ pc'[r] = "done" =>
                     /\ echo'[r] = "no_results"
                     /\ search_results'[r] = <<>> /\ idx'[r] = 0
               /\ pc'[r] = "check" =>
                     /\ echo'[r] = "found"
                     /\ search_results'[r] # <<>> /\ idx'[r] = 1
         /\ (pc[r] = "aborted" /\ Moves(r)) =>
               /\ pc'[r] = "idle"
               /\ store' = store
         /\ (pc[r] = "done" /\ echo[r] = "no_results" /\ Moves(r)) =>
               /\ pc'[r] = "idle"
               /\ store' = store
         /\ (pc'[r] \in Stages) => search_results'[r] # <<>>]_vars

\* A discovery call has failed while the store holds a record.
WitnessC13 ==
    /\ pc["A"] = "aborted"
    /\ echo["A"] = "exception"
    /\ search_results["A"] = <<>>
    /\ store # <<>>

C15_SequentialStages ==
    [][\A r \in Runs :
         (Moves(r) /\ pc[r] \in Stages) =>
            /\ search_results'[r] = search_results[r]
            /\ IF pc[r] = "loop"
               THEN /\ idx'[r] = idx[r] + 1
                    /\ pc'[r] = (IF idx[r] < Len(search_results[r])
                                 THEN "check" ELSE "done")
               ELSE /\ idx'[r] = idx[r]
                    /\ pc'[r] \in Stages => Rank(pc'[r]) > Rank(pc[r])
            /\ pc'[r] = "fetch" => pc[r] = "check"
            /\ pc'[r] = "analyze" => pc[r] = "fetch"
            /\ pc'[r] = "insert" => pc[r] = "analyze"
            /\ pc'[r] = "sleep" => pc[r] = "insert"]_vars

\* The 2nd candidate is at its insert after the 1st failed and left no record.
WitnessC15 ==
    /\ pc["A"] = "insert"
    /\ idx["A"] = 2
    /\ store = <<>>
    /\ analysis["A"] = GoodPayload

\* ------------------------------------------------------------------------
\* Properties of the store under runs and reports (SpecCli, Spec)
\* ------------------------------------------------------------------------
\* C16: every step leaves each stored record as it is and in its place, so
\* the store only grows; a step of the report leaves the store unchanged.
C16_StoreOnlyGrows ==
    [][/\ Len(store') >= Len(store)
       /\ \A i \in 1..Len(store) : store'[i] = store[i]
       /\ report' # report => store' = store]_vars

\* A report was given on a store with a record, after a run got the
\* duplicate error for a stored url.
WitnessC16 ==
    /\ store # <<>>
    /\ \E r \in Runs : warned[r]
    /\ report.end = "closed_database_exception"

\* C17: the store changes only by the insert of a run whose candidate's url
\* was absent at its check and is absent now, whose extraction gave an
\* article and whose analysis gave a payload; the one new record has the
\* run's coin in lower case, the candidate's url, the extractor's title and
\* content, the analyzer's summary, sentiment and score, and a date.
C17_StoredFromPipeline ==
    [][/\ \A r \in Runs :
             (pc'[r] = "fetch" /\ Moves(r)) =>
                /\ pc[r] = "check"
                /\ ~exists(store, Candidate(r))
       /\ store' # store =>
             \E r \in Runs :
                /\ pc[r] = "insert" /\ Moves(r)
                /\ ~exists(store, Candidate(r))
                /\ article_data[r].k = "dict"
                /\ analysis[r].k = "dict"
                /\ Len(store') = Len(store) + 1
                /\ SubSeq(store', 1, Len(store)) = store
                /\ LET new == store'[Len(store')]
                   IN /\ new.coin = Lower(coin[r])
                      /\ new.url = Candidate(r)
                      /\ new.title = article_data[r].title
                      /\ new.content = article_data[r].content
                      /\ new.summary = analysis[r].summary
                      /\ new.sentiment = analysis[r].sentiment
                      /\ new.score = analysis[r].score
                      /\ new.retrieval_date \in Nat \ {0}]_vars

\* A run given for "BTC" has stored its 2nd candidate under "btc".
WitnessC17 ==
    /\ coin["A"] = BTC
    /\ pc["A"] = "sleep" /\ echo["A"] = "stored" /\ idx["A"] = 2
    /\ store # <<>>
    /\ store[Len(store)].url = Candidate("A")
    /\ store[Len(store)].coin = btc

\* ------------------------------------------------------------------------
\* Properties of the coin of a record (SpecCli, Spec)
\* ------------------------------------------------------------------------
Range(f) == {f[i] : i \in DOMAIN f}
ShownUrls == {shown[k].url : k \in 1..Len(shown)}

\* Row i was stored by run r: r is the only run that had its url.
StoredBy(i, r) ==
    /\ store[i].url \in Range(search_results[r])
    /\ \A q \in Runs \ {r} : store[i].url \notin Range(search_results[q])

\* C18: a record stored by a run given one spelling of a coin is read by a
\* report given any spelling of that coin, and by no report given another
\* coin: the report reads exactly the records whose coin is the report's
\* coin up to case.
C18_CoinCaseRoundTrip ==
    ShowReturned =>
       /\ ShownUrls =
             {store[i].url : i \in {j \in 1..Len(store) :
                                       Lower(store[j].coin) = Lower(report.coin)}}
       /\ \A r \in Runs : \A i \in 1..Len(store) :
             StoredBy(i, r) =>
                (store[i].url \in ShownUrls <=> Lower(coin[r]) = Lower(report.coin))

\* A record stored by a run given "BTC" is read by a report given "Btc".
WitnessC18 ==
    /\ ShowReturned
    /\ report.coin = Btc
    /\ \E i \in 1..Len(store) :
          /\ StoredBy(i, "A") /\ coin["A"] = BTC
          /\ store[i].url \in ShownUrls

\* C19: a step of a run writes the "stored" message exactly when it commits
\* a record.
C19_StoredReportIffCommitted ==
    [][\A r \in Runs :
         Moves(r) =>
            ((echo'[r] = "stored" /\ echo[r] # "stored") <=> store' # store)]_vars

\* C20: the existence check skips a candidate whose url is stored under
\* another coin, the store unchanged; the coin of a stored record never
\* changes; a report shows no record stored under another coin.
C20_DedupAcrossCoins ==
    [][/\ \A r \in Runs :
             (/\ pc[r] = "check" /\ Moves(r)
              /\ \E i \in 1..Len(store) :
                    /\ store[i].url = Candidate(r)
                    /\ store[i].coin # Lower(coin[r]))
                => /\ pc'[r] = "loop"
                   /\ echo'[r] = "skip"
                   /\ store' = store
       /\ \A i \in 1..Len(store) :
             /\ i <= Len(store')
             /\ store'[i].url = store[i].url
             /\ store'[i].coin = store[i].coin
       /\ (report' # report /\ report'.end # "none") =>
             \A k \in 1..Len(shown') : \A i \in 1..Len(store) :
                store[i].url = shown'[k].url =>
                   store[i].coin = Lower(report'.coin)]_vars

\* A run given another coin has skipped a url stored under "btc".
WitnessC20 ==
    \E r \in Runs :
       /\ pc[r] = "loop" /\ echo[r] = "skip"
       /\ Lower(coin[r]) = eth
       /\ \E i \in 1..Len(store) :
             /\ store[i].url = Candidate(r)
             /\ store[i].coin = btc

====
